---- MODULE Spec2Model ----
(***************************************************************************)
(* gisrest: an aiohttp service over a PostGIS table users(id, name,        *)
(* location).  Five handlers (locate, get, update, create, delete) each    *)
(* parse their parameters, take one pooled connection, run one SQL         *)
(* statement and answer with JSON.  The handlers are coroutines: a handler *)
(* runs without interruption between two awaits, so each handler is        *)
(* modelled as the steps between its awaits:                               *)
(*   <handler>          the request arrives, parameters are parsed and     *)
(*                      validated (up to "async with self.pool.acquire()") *)
(*   Acquire            the pool hands out a connection                    *)
(*   <handler>_execute  the statement runs, the cursor is read, the        *)
(*                      connection goes back to the pool as the "async     *)
(*                      with" blocks exit, the response is built           *)
(*   Return             the response (or the failure) leaves the service   *)
(***************************************************************************)
EXTENDS Integers, Sequences, FiniteSets, TLC

\* Bounds of the model.
MaxId == 2        \* ids the users_id_seq sequence hands out: 1..MaxId
NumReqs == 2      \* requests that can be in flight at once
PoolSize == 1     \* connections in the pool (aiopg's maxsize, shrunk so that requests wait)

\* settings.py
SRID == 4326
USER_HEADER == <<"user_id", "name", "lat", "lng">>

Reqs == 1..NumReqs

VARIABLES
    users,         \* the table: id -> [name, location]
    users_id_seq,  \* next value of the id sequence
    held,          \* requests that hold a pooled connection
    pc,            \* where each request is
    req,           \* the request each slot is serving
    stmt,          \* the statement the handler has prepared
    resp,          \* the response or failure the handler ended with
    deleted,       \* history: ids of created users for which a delete has completed
    mutated        \* history: an UPDATE or DELETE statement has run

vars == <<users, users_id_seq, held, pc, req, stmt, resp, deleted, mutated>>

----------------------------------------------------------------------------
\* Python values

Empty == [k \in {} |-> ""]

\* d.get(k, default) of a dict / MultiDict
Get(d, k, default) == IF k \in DOMAIN d THEN d[k] ELSE default

Digit == <<"0", "1", "2", "3", "4", "5", "6", "7", "8", "9">>

\* '{0}'.format(n), str(n) of a whole number
RECURSIVE Format(_)
Format(n) == IF n < 10 THEN Digit[n + 1] ELSE Format(n \div 10) \o Digit[(n % 10) + 1]

Numerals == (0..9) \cup {SRID}

\* Decimal(text) for the numeric texts of the model
Decimal(s) == CHOOSE n \in Numerals : Format(n) = s

\* Decimal(d.get(k, default))
DecimalGet(d, k, default) == IF k \in DOMAIN d THEN Decimal(d[k]) ELSE default

\* An optional value (None or a value) and its truth value
PyNone == [some |-> FALSE]
Some(v) == [some |-> TRUE, v |-> v]
TruthyNum(o) == o.some /\ o.v # 0
TruthyStr(o) == o.some /\ o.v # ""

\* dict(zip(header, row))
Zip(header, row) ==
    LET n == IF Len(header) < Len(row) THEN Len(header) ELSE Len(row)
    IN  [k \in {header[i] : i \in 1..n} |-> row[CHOOSE i \in 1..n : header[i] = k]]

----------------------------------------------------------------------------
\* PostGIS

\* 'POINT({0} {1})'.format(a, b)
PointText(a, b) == "POINT(" \o Format(a) \o " " \o Format(b) \o ")"

WktCoords == (0..3) \X (0..3)

ST_MakePoint(a, b) == [x |-> a, y |-> b, srid |-> 0]
ST_SetSRID(g, srid) == [g EXCEPT !.srid = srid]
ST_GeomFromText(text, srid) ==
    LET p == CHOOSE p \in WktCoords : PointText(p[1], p[2]) = text
    IN  [x |-> p[1], y |-> p[2], srid |-> srid]
ST_X(g) == g.x
ST_Y(g) == g.y

\* ST_DWithin raises "Operation on mixed SRID geometries" when the SRIDs differ
MixedSRID(g1, g2) == g1.srid # g2.srid
ST_DWithin(g1, g2, d) ==
    (g1.x - g2.x) * (g1.x - g2.x) + (g1.y - g2.y) * (g1.y - g2.y) <= d * d

\* SELECT id, name, ST_X(location), ST_Y(location)
SelectRow(tbl, id) == <<id, tbl[id].name, ST_X(tbl[id].location), ST_Y(tbl[id].location)>>

----------------------------------------------------------------------------
\* The SQL statements, as PostgreSQL runs them on the table

Min(a, b) == IF a < b THEN a ELSE b

EmptyTable == [i \in {} |-> [name |-> "", location |-> ST_MakePoint(0, 0)]]

\* SELECT ... FROM users
\* WHERE ST_DWithin(location, ST_SetSRID(ST_MakePoint(%s, %s), %s), %s) LIMIT %s
\* with the five placeholders filled, in this order, by a1..a5.
\* found: the sets of ids the statement may return (no ORDER BY: any LIMIT rows).
SelectNear(tbl, a1, a2, a3, a4, a5) ==
    LET point == ST_SetSRID(ST_MakePoint(a1, a2), a3)
        matching == {id \in DOMAIN tbl : ST_DWithin(tbl[id].location, point, a4)}
    IN  [error |-> \/ a5 < 0
                   \/ a5 > 0 /\ \E id \in DOMAIN tbl : MixedSRID(tbl[id].location, point),
         found |-> {S \in SUBSET matching : Cardinality(S) = Min(a5, Cardinality(matching))}]

\* SELECT ... FROM users WHERE id=%s, then cur.fetchone()
SelectById(tbl, id) ==
    IF id \in DOMAIN tbl THEN [found |-> TRUE, row |-> SelectRow(tbl, id)]
    ELSE [found |-> FALSE]

\* UPDATE users SET {fields} WHERE id=%(user_id)s
\* fields: the columns of the SET clause; params: query_params
UpdateRowAllColumns(tbl, fields, params) ==
    LET id == params["user_id"]
        has(f) == \E i \in 1..Len(fields) : fields[i] = f
    IN  IF id \notin DOMAIN tbl THEN tbl
        ELSE [tbl EXCEPT ![id] =
                [name |-> IF has("name") THEN params["name"] ELSE "user",
                 location |-> IF has("location")
                              THEN ST_GeomFromText(params["point"], params["srid"])
                              ELSE ST_GeomFromText(PointText(0, 0), params["srid"])]]

UpdateRowUpsert(tbl, fields, params) ==
    LET id == params["user_id"]
        has(f) == \E i \in 1..Len(fields) : fields[i] = f
        old == IF id \in DOMAIN tbl THEN tbl[id]
               ELSE [name |-> "user", location |-> ST_GeomFromText(PointText(0, 0), params["srid"])]
        new == [name |-> IF has("name") THEN params["name"] ELSE old.name,
                location |-> IF has("location")
                             THEN ST_GeomFromText(params["point"], params["srid"])
                             ELSE old.location]
    IN  [i \in DOMAIN tbl \cup {id} |-> IF i = id THEN new ELSE tbl[i]]

UpdateRow(tbl, fields, params) ==
    LET id == params["user_id"]
        has(f) == \E i \in 1..Len(fields) : fields[i] = f
    IN  IF id \notin DOMAIN tbl THEN tbl
        ELSE [tbl EXCEPT ![id] =
                [name |-> IF has("name") THEN params["name"] ELSE tbl[id].name,
                 location |-> IF has("location")
                              THEN ST_GeomFromText(params["point"], params["srid"])
                              ELSE tbl[id].location]]

\* nextval of the sequence behind users.id: the column default of the INSERT
NextVal(tbl, seq) == seq

\* INSERT INTO users (name, location) VALUES (%s, ST_GeomFromText(%s, %s)) RETURNING id
InsertRow(tbl, seq, name, text, srid) ==
    LET id == NextVal(tbl, seq)
    IN  [id |-> id,
         table |-> [i \in DOMAIN tbl \cup {id} |->
                      IF i = id THEN [name |-> name, location |-> ST_GeomFromText(text, srid)]
                      ELSE tbl[i]]]

\* DELETE FROM users WHERE id=%s
DeleteRowFrom(tbl, id) == [i \in {j \in DOMAIN tbl : j < id} |-> tbl[i]]

DeleteRow(tbl, id) == [i \in DOMAIN tbl \ {id} |-> tbl[i]]

----------------------------------------------------------------------------
\* Requests the clients send (texts, as HTTP carries them)

IdTexts == {Format(i) : i \in 0..MaxId}
LatTexts == {"0", "1"}
LngTexts == {"2"}
Names == {"a", "b"}

\* A form body or query string with the keys K
Params(K, la, ln, nm) ==
    [k \in K |-> CASE k = "lat" -> la [] k = "lng" -> ln [] k = "name" -> nm]

UpdateBodies ==
    {Params(K, la, ln, nm) : K \in SUBSET {"lat", "lng", "name"},
                             la \in LatTexts, ln \in LngTexts, nm \in Names}

CreateBodies == {Empty, [lat |-> "1", lng |-> "2", name |-> "a"]}

LocateQueries ==
    {Empty,
     [radius |-> Format(SRID)],
     [lat |-> "1", lng |-> "2", radius |-> "1", limit |-> "2"],
     [lat |-> "1", lng |-> "2", radius |-> Format(SRID), limit |-> "2"]}

NoReq == [op |-> "none"]
NoStmt == [sql |-> "none"]
NoResp == [kind |-> "none"]

Request(op, match_info, data) == [op |-> op, match_info |-> match_info, data |-> data]
Json(body) == [kind |-> "json", body |-> body]
Failure(e) == [kind |-> "failure", error |-> e]

----------------------------------------------------------------------------
\* Parameter parsing of the handlers

\* locate_handler: the parameters of cur.execute
locate_args(q) ==
    LET lat == DecimalGet(q, "lat", 0)
        lng == DecimalGet(q, "lng", 0)
        radius == DecimalGet(q, "radius", 1)
        limit == DecimalGet(q, "limit", 1)
    IN  <<lat, lng, radius, SRID, limit>>

\* update_user_handler: data['lng'] is read whenever 'lat' is in data
update_raises(data) == "lat" \in DOMAIN data /\ "lng" \notin DOMAIN data
update_lat(data) == IF "lat" \in DOMAIN data THEN Some(Decimal(data["lat"])) ELSE PyNone
update_lng(data) == IF "lat" \in DOMAIN data THEN Some(Decimal(data["lng"])) ELSE PyNone
update_name(data) == IF "name" \in DOMAIN data THEN Some(data["name"]) ELSE PyNone

update_fields(lat, lng, name) ==
    (IF TruthyNum(lat) /\ TruthyNum(lng) THEN <<"location">> ELSE <<>>)
        \o (IF TruthyStr(name) THEN <<"name">> ELSE <<>>)

query_params(user_id, lat, lng, name) ==
    LET keys == {"user_id", "srid"}
                \cup (IF TruthyNum(lat) /\ TruthyNum(lng) THEN {"point"} ELSE {})
                \cup (IF TruthyStr(name) THEN {"name"} ELSE {})
    IN  [k \in keys |-> CASE k = "user_id" -> user_id
                          [] k = "srid" -> SRID
                          [] k = "point" -> PointText(lat.v, lng.v)
                          [] k = "name" -> name.v]

\* update_user_handler up to the statement: the early return, or the statement
update_parse(match_info, data) ==
    LET user_id == DecimalGet(match_info, "user_id", 0)
        lat == update_lat(data)
        lng == update_lng(data)
        name == update_name(data)
    IN  IF user_id = 0 THEN [returns |-> TRUE, result |-> "Invalid user id"]
        ELSE IF ~TruthyStr(name) /\ ~(TruthyNum(lat) /\ TruthyNum(lng))
        THEN [returns |-> TRUE, result |-> "Invalid update data"]
        ELSE [returns |-> FALSE,
              stmt |-> [sql |-> "update",
                        fields |-> update_fields(lat, lng, name),
                        params |-> query_params(user_id, lat, lng, name)]]

\* create_user_handler: the parameters of cur.execute, read from match_info
create_args(match_info) ==
    LET lat == DecimalGet(match_info, "lat", 0)
        lng == DecimalGet(match_info, "lng", 0)
        name == Get(match_info, "lng", "user")
    IN  <<name, PointText(lat, lng), SRID>>

----------------------------------------------------------------------------
\* The pool

\* self.pool.acquire(): a connection is free
PoolHasFree == Cardinality(held) < PoolSize

\* exit of "async with self.pool.acquire() as conn", normal or by an exception
ReleaseLeakOnError(r, failed) == IF failed THEN held ELSE held \ {r}

Release(r, failed) == held \ {r}

Init ==
    /\ users = EmptyTable
    /\ users_id_seq = 1
    /\ held = {}
    /\ pc = [r \in Reqs |-> "idle"]
    /\ req = [r \in Reqs |-> NoReq]
    /\ stmt = [r \in Reqs |-> NoStmt]
    /\ resp = [r \in Reqs |-> NoResp]
    /\ deleted = {}
    /\ mutated = FALSE

\* The handler of slot r goes on to pool.acquire() with statement s
Proceed(r, request, s) ==
    /\ req' = [req EXCEPT ![r] = request]
    /\ stmt' = [stmt EXCEPT ![r] = s]
    /\ pc' = [pc EXCEPT ![r] = "acquire"]
    /\ UNCHANGED <<users, users_id_seq, held, resp, deleted, mutated>>

\* The handler of slot r ends before any statement
EndEarly(r, request, response) ==
    /\ req' = [req EXCEPT ![r] = request]
    /\ resp' = [resp EXCEPT ![r] = response]
    /\ pc' = [pc EXCEPT ![r] = IF response.kind = "json" THEN "done" ELSE "failed"]
    /\ UNCHANGED <<users, users_id_seq, held, stmt, deleted, mutated>>

\* The statement of slot r has run: connection released, handler ends
Finish(r, response) ==
    /\ held' = Release(r, response.kind # "json" /\ response.error = "DatabaseError")
    /\ resp' = [resp EXCEPT ![r] = response]
    /\ pc' = [pc EXCEPT ![r] = IF response.kind = "json" THEN "done" ELSE "failed"]
    /\ UNCHANGED <<req, stmt>>

locate_handler(r) ==
    /\ pc[r] = "idle"
    /\ \E q \in LocateQueries :
          Proceed(r, Request("locate", Empty, q), [sql |-> "locate", args |-> locate_args(q)])

get_user_handler(r) ==
    /\ pc[r] = "idle"
    /\ \E id \in IdTexts :
          LET match_info == [user_id |-> id]
          IN  Proceed(r, Request("get", match_info, Empty),
                      [sql |-> "get", args |-> <<DecimalGet(match_info, "user_id", 0)>>])

update_user_handler(r) ==
    /\ pc[r] = "idle"
    /\ \E id \in IdTexts, data \in UpdateBodies :
          LET match_info == [user_id |-> id]
              request == Request("update", match_info, data)
          IN  IF update_raises(data) THEN EndEarly(r, request, Failure("KeyError"))
              ELSE LET parsed == update_parse(match_info, data)
                   IN  IF parsed.returns
                       THEN EndEarly(r, request, Json([result |-> parsed.result]))
                       ELSE Proceed(r, request, parsed.stmt)

\* Creates in flight, each of which will take an id
CreatesInFlight == Cardinality({s \in Reqs : pc[s] \in {"acquire", "execute"} /\ req[s].op = "create"})

create_user_handler(r) ==
    /\ pc[r] = "idle"
    /\ users_id_seq + CreatesInFlight <= MaxId
    /\ \E body \in CreateBodies :
          Proceed(r, Request("create", Empty, body),
                  [sql |-> "insert", args |-> create_args(Empty)])

delete_user_handler(r) ==
    /\ pc[r] = "idle"
    /\ \E id \in IdTexts :
          LET match_info == [user_id |-> id]
          IN  Proceed(r, Request("delete", match_info, Empty),
                      [sql |-> "delete", args |-> <<DecimalGet(match_info, "user_id", 0)>>])

\* await self.pool.acquire()
Acquire(r) ==
    /\ pc[r] = "acquire"
    /\ PoolHasFree
    /\ held' = held \cup {r}
    /\ pc' = [pc EXCEPT ![r] = "execute"]
    /\ UNCHANGED <<users, users_id_seq, req, stmt, resp, deleted, mutated>>

locate_execute(r) ==
    /\ pc[r] = "execute" /\ stmt[r].sql = "locate"
    /\ LET a == stmt[r].args
           cur == SelectNear(users, a[1], a[2], a[3], a[4], a[5])
       IN  IF cur.error THEN Finish(r, Failure("DatabaseError"))
           ELSE \E ids \in cur.found :
                   Finish(r, Json([users |-> {Zip(USER_HEADER, SelectRow(users, id)) : id \in ids}]))
    /\ UNCHANGED <<users, users_id_seq, deleted, mutated>>

get_user_execute(r) ==
    /\ pc[r] = "execute" /\ stmt[r].sql = "get"
    /\ LET user_data == SelectById(users, stmt[r].args[1])
       IN  IF user_data.found THEN Finish(r, Json([user |-> Zip(USER_HEADER, user_data.row)]))
           ELSE Finish(r, Failure("TypeError"))
    /\ UNCHANGED <<users, users_id_seq, deleted, mutated>>

update_user_execute(r) ==
    /\ pc[r] = "execute" /\ stmt[r].sql = "update"
    /\ users' = UpdateRow(users, stmt[r].fields, stmt[r].params)
    /\ mutated' = TRUE
    /\ Finish(r, Json([result |-> "success"]))
    /\ UNCHANGED <<users_id_seq, deleted>>

create_user_execute(r) ==
    /\ pc[r] = "execute" /\ stmt[r].sql = "insert"
    /\ LET a == stmt[r].args
           ins == InsertRow(users, users_id_seq, a[1], a[2], a[3])
       IN  /\ users' = ins.table
           /\ users_id_seq' = users_id_seq + 1
           /\ Finish(r, Json([user_id |-> ins.id]))
    /\ UNCHANGED <<deleted, mutated>>

delete_user_execute(r) ==
    /\ pc[r] = "execute" /\ stmt[r].sql = "delete"
    /\ users' = DeleteRow(users, stmt[r].args[1])
    /\ deleted' = deleted \cup ({stmt[r].args[1]} \cap (1..(users_id_seq - 1)))
    /\ mutated' = TRUE
    /\ Finish(r, Json([result |-> "success"]))
    /\ UNCHANGED users_id_seq

\* The response, or the failure, leaves the service; the slot is free again
Return(r) ==
    /\ pc[r] \in {"done", "failed"}
    /\ pc' = [pc EXCEPT ![r] = "idle"]
    /\ req' = [req EXCEPT ![r] = NoReq]
    /\ stmt' = [stmt EXCEPT ![r] = NoStmt]
    /\ resp' = [resp EXCEPT ![r] = NoResp]
    /\ UNCHANGED <<users, users_id_seq, held, deleted, mutated>>

Next ==
    \E r \in Reqs :
        \/ locate_handler(r)
        \/ get_user_handler(r)
        \/ update_user_handler(r)
        \/ create_user_handler(r)
        \/ delete_user_handler(r)
        \/ Acquire(r)
        \/ locate_execute(r)
        \/ get_user_execute(r)
        \/ update_user_execute(r)
        \/ create_user_execute(r)
        \/ delete_user_execute(r)
        \/ Return(r)

Spec == Init /\ [][Next]_vars

----------------------------------------------------------------------------
\* Vocabulary of the properties

Finished(r) == pc[r] \in {"done", "failed"}
InFlight(r) == pc[r] \in {"acquire", "execute"}
PathId(r) == Decimal(req[r].match_info["user_id"])
Success == Json([result |-> "success"])
Point(x, y) == [x |-> x, y |-> y, srid |-> SRID]
HasName(data) == "name" \in DOMAIN data
HasPoint(data) == {"lat", "lng"} \subseteq DOMAIN data

\* C1: every locate request ends in a response whose 'users' list has at most
\* `limit` records, each within `radius` of (lat, lng); omitted parameters count
\* as lat=0, lng=0, radius=1, limit=1.
LocateWithinRadius ==
    \A r \in Reqs :
        (Finished(r) /\ req[r].op = "locate") =>
            LET q == req[r].data
                lat == DecimalGet(q, "lat", 0)
                lng == DecimalGet(q, "lng", 0)
                radius == DecimalGet(q, "radius", 1)
                limit == DecimalGet(q, "limit", 1)
            IN  /\ resp[r].kind = "json"
                /\ Cardinality(resp[r].body.users) <= limit
                /\ \A u \in resp[r].body.users :
                      (u["lat"] - lat) * (u["lat"] - lat) + (u["lng"] - lng) * (u["lng"] - lng)
                          <= radius * radius

\* C2: a create that sent (lat, lng, name) in its body returned id N; a get of N,
\* with no update or delete in between, answers user_id N and the name, lat and
\* lng that were sent.
CreateThenGet ==
    \A c \in Reqs, g \in Reqs :
        ( /\ pc[c] = "done" /\ req[c].op = "create"
          /\ DOMAIN req[c].data = {"lat", "lng", "name"}
          /\ pc[g] = "done" /\ req[g].op = "get"
          /\ PathId(g) = resp[c].body.user_id
          /\ ~mutated ) =>
            LET user == resp[g].body.user
                sent == req[c].data
            IN  /\ user["user_id"] = resp[c].body.user_id
                /\ user["name"] = sent["name"]
                /\ user["lat"] = Decimal(sent["lat"])
                /\ user["lng"] = Decimal(sent["lng"])

\* C3: an update of an existing user N carrying only `name` sets the name and
\* leaves the location; carrying only `lat` and `lng` it sets the location to
\* (lat, lng) and leaves the name; carrying all three it sets both.  The ids of
\* the table and every other row are unchanged.
UpdateFrame ==
    [][\A r \in Reqs :
          ( /\ pc[r] \in {"idle", "execute"} /\ pc'[r] \in {"done", "failed"}
            /\ req'[r].op = "update"
            /\ Decimal(req'[r].match_info["user_id"]) \in DOMAIN users ) =>
              LET id == Decimal(req'[r].match_info["user_id"])
                  data == req'[r].data
                  K == DOMAIN data
              IN  /\ DOMAIN users' = DOMAIN users
                  /\ \A other \in DOMAIN users \ {id} : users'[other] = users[other]
                  /\ K = {"name"} =>
                        /\ users'[id].name = data["name"]
                        /\ users'[id].location = users[id].location
                  /\ K = {"lat", "lng"} =>
                        /\ users'[id].location = Point(Decimal(data["lat"]), Decimal(data["lng"]))
                        /\ users'[id].name = users[id].name
                  /\ K = {"lat", "lng", "name"} =>
                        /\ users'[id].location = Point(Decimal(data["lat"]), Decimal(data["lng"]))
                        /\ users'[id].name = data["name"]
      ]_vars

\* C4: a get whose id matches no row ends in a JSON response {'user': ...},
\* never in an uncaught failure.
GetMissingAnswers ==
    [][\A r \in Reqs :
          ( /\ pc[r] = "execute" /\ pc'[r] # "execute"
            /\ req[r].op = "get"
            /\ PathId(r) \notin DOMAIN users ) =>
              /\ pc'[r] = "done"
              /\ resp'[r].kind = "json"
              /\ "user" \in DOMAIN resp'[r].body
      ]_vars

\* C5 (as claimed): once a delete request for id N has completed, no later
\* locate response contains a record with user_id N.
DeletedNeverLocated ==
    [][\A d \in Reqs, l \in Reqs :
          ( /\ pc[d] = "done" /\ req[d].op = "delete"
            /\ pc[l] = "execute" /\ req[l].op = "locate" /\ pc'[l] = "done" ) =>
              \A u \in resp'[l].body.users : u["user_id"] # PathId(d)
      ]_vars

\* C5 (amended): once a delete request for the id N of a user that had been
\* created has completed, no later locate response contains a record with
\* user_id N, whatever requests follow (a later create never returns N, a later
\* update of N does not bring the row back).
DeletedUserNeverLocated ==
    [][\A l \in Reqs :
          (pc[l] = "execute" /\ req[l].op = "locate" /\ pc'[l] = "done") =>
              \A u \in resp'[l].body.users : u["user_id"] \notin deleted
      ]_vars

\* A locate answered with users while the user of a completed delete is gone
\* and an update of that user has since answered success.
DeletedUserNeverLocatedWitness ==
    \E l \in Reqs, u \in Reqs :
        /\ pc[l] = "done" /\ req[l].op = "locate" /\ resp[l].body.users # {}
        /\ pc[u] = "done" /\ req[u].op = "update" /\ resp[u] = Success
        /\ PathId(u) \in deleted
        /\ \A x \in resp[l].body.users : x["user_id"] \notin deleted

UpdateValidation ==
    \A r \in Reqs :
        (req[r].op = "update" /\ PathId(r) # 0) =>
            LET data == req[r].data
                has(f) == \E i \in 1..Len(stmt[r].fields) : stmt[r].fields[i] = f
            IN  /\ pc[r] = "done" =>
                      (resp[r].body.result = "Invalid update data"
                          <=> (~HasName(data) /\ ~HasPoint(data)))
                /\ (stmt[r].sql = "update" /\ HasPoint(data)) =>
                      /\ has("location")
                      /\ stmt[r].params["point"]
                             = PointText(Decimal(data["lat"]), Decimal(data["lng"]))
                /\ (stmt[r].sql = "update" /\ HasName(data)) =>
                      /\ has("name")
                      /\ stmt[r].params["name"] = data["name"]

\* C8: an update that fails validation (id zero, or neither `name` nor both
\* `lat` and `lng` in the body) ends in a JSON response carrying an error
\* message, never in a failure, and issues no statement.
InvalidUpdateAnswers ==
    \A r \in Reqs :
        ( /\ req[r].op = "update" /\ Finished(r)
          /\ \/ PathId(r) = 0
             \/ ~HasName(req[r].data) /\ ~HasPoint(req[r].data) ) =>
            /\ pc[r] = "done"
            /\ resp[r].kind = "json"
            /\ resp[r].body.result \in {"Invalid user id", "Invalid update data"}
            /\ stmt[r] = NoStmt

\* C9: a handler holds a connection exactly while its statement is pending, the
\* connections in use never exceed the pool size, and when no request is in
\* flight (each has answered or failed) every connection is back in the pool.
PoolDiscipline ==
    /\ held = {r \in Reqs : pc[r] = "execute"}
    /\ Cardinality(held) <= PoolSize
    /\ (\A r \in Reqs : ~InFlight(r)) => held = {}

\* A statement has failed with a database error, nothing is in flight and the
\* pool is whole.
PoolDisciplineWitness ==
    /\ \E r \in Reqs : pc[r] = "failed" /\ resp[r] = Failure("DatabaseError")
    /\ \A r \in Reqs : Finished(r)
    /\ held = {}

\* One request run alone, start to finish, on table tbl with sequence seq
RunAlone(request, tbl, seq) ==
    CASE request.op = "update" ->
            IF update_raises(request.data) \/ update_parse(request.match_info, request.data).returns
            THEN [table |-> tbl, seq |-> seq]
            ELSE LET s == update_parse(request.match_info, request.data).stmt
                 IN  [table |-> UpdateRow(tbl, s.fields, s.params), seq |-> seq]
      [] request.op = "create" ->
            LET a == create_args(request.match_info)
            IN  [table |-> InsertRow(tbl, seq, a[1], a[2], a[3]).table, seq |-> seq + 1]
      [] request.op = "delete" ->
            [table |-> DeleteRow(tbl, DecimalGet(request.match_info, "user_id", 0)), seq |-> seq]
      [] OTHER -> [table |-> tbl, seq |-> seq]

====
